---- MODULE Spec2Model ----
(***************************************************************************)
(* A model of the email verifier's check orchestrator (Verifier.Verify),   *)
(* its two task runners (noGroup and errgroup.Group), the MX and gravatar  *)
(* checks, the reachability classifier and the TLD check.                  *)
(*                                                                         *)
(* Go strings are modelled as sequences of one-character strings, so that *)
(* the string functions (ToLower, LastIndex, slicing) do what they do in   *)
(* the code.                                                               *)
(***************************************************************************)
EXTENDS Integers, Sequences, FiniteSets, TLC

(***************************************************************************)
(* String literals used by the model.                                      *)
(***************************************************************************)
UpperLetters ==
    <<"A","B","C","D","E","F","G","H","I","J","K","L","M","N","O","P","Q","R","S","T","U","V","W","X","Y","Z">>
LowerLetters ==
    <<"a","b","c","d","e","f","g","h","i","j","k","l","m","n","o","p","q","r","s","t","u","v","w","x","y","z">>

\* "@yahoo.com": empty local part (TestCheckEmail_ErrorSyntax)
s_yahoo_invalid ==
    <<"@","y","a","h","o","o",".","c","o","m">>
\* "exampleuser@zzjbfwqi.shop": built-in disposable domain (TestCheckEmail_Disposable)
s_disposable ==
    <<"e","x","a","m","p","l","e","u","s","e","r","@","z","z","j","b","f","w","q","i",".","s","h","o","p">>
\* "exampleuser@iamdisposableemail.de" (TestCheckEmail_Disposable_override)
s_override ==
    <<"e","x","a","m","p","l","e","u","s","e","r","@","i","a","m","d","i","s","p","o","s","a","b","l","e","e","m","a","i","l",".","d","e">>
\* "exampleuser@iamdisposableemail.testing" (TestCheckEmail_TLD_NotExists)
s_notld ==
    <<"e","x","a","m","p","l","e","u","s","e","r","@","i","a","m","d","i","s","p","o","s","a","b","l","e","e","m","a","i","l",".","t","e","s","t","i","n","g">>
\* " Admin@Gmai.com": a role account at a misspelled domain, written with a
\* leading blank and capitals
s_typo ==
    <<" ","A","d","m","i","n","@","G","m","a","i",".","c","o","m">>
\* "user@yahoo.com": a mailbox at a vendor that has an API verifier
s_yahoo ==
    <<"u","s","e","r","@","y","a","h","o","o",".","c","o","m">>
d_zzjbfwqi_shop ==
    <<"z","z","j","b","f","w","q","i",".","s","h","o","p">>
d_override_de ==
    <<"i","a","m","d","i","s","p","o","s","a","b","l","e","e","m","a","i","l",".","d","e">>
d_override_testing ==
    <<"i","a","m","d","i","s","p","o","s","a","b","l","e","e","m","a","i","l",".","t","e","s","t","i","n","g">>
d_gmail_com ==
    <<"g","m","a","i","l",".","c","o","m">>
d_gmai_com ==
    <<"g","m","a","i",".","c","o","m">>
d_yahoo_com ==
    <<"y","a","h","o","o",".","c","o","m">>
u_admin ==
    <<"a","d","m","i","n">>
u_postmaster ==
    <<"p","o","s","t","m","a","s","t","e","r">>
t_com ==
    <<"c","o","m">>
t_shop ==
    <<"s","h","o","p">>
t_org ==
    <<"o","r","g">>
t_ch ==
    <<"c","h">>
t_de ==
    <<"d","e">>

\* The addresses a caller passes to Verify.
Emails ==
    {s_yahoo_invalid, s_disposable, s_override, s_notld, s_typo}

(***************************************************************************)
(* Go's strings package, on sequences of characters.                       *)
(***************************************************************************)
ToLowerChar(c) ==
    IF \E i \in 1..Len(UpperLetters) : UpperLetters[i] = c
    THEN LowerLetters[CHOOSE i \in 1..Len(UpperLetters) : UpperLetters[i] = c]
    ELSE c

RECURSIVE ToLower(_)
\* strings.ToLower
ToLower(s) ==
    IF s = <<>> THEN <<>>
    ELSE <<ToLowerChar(Head(s))>> \o ToLower(Tail(s))

RECURSIVE LastIndexBelow(_, _, _)
\* the 0-based index of the last c among the first n characters of s, or -1
LastIndexBelow(s, c, n) ==
    IF n = 0 THEN -1
    ELSE IF s[n] = c THEN n - 1
    ELSE LastIndexBelow(s, c, n - 1)

\* strings.LastIndex(s, c) for a one-character c: 0-based, -1 when absent
LastIndex(s, c) ==
    LastIndexBelow(s, c, Len(s))

\* the Go slice s[from:], from 0-based
SliceFrom(s, from) ==
    SubSeq(s, from + 1, Len(s))

\* the Go slice s[:to], to 0-based and exclusive
SliceTo(s, to) ==
    SubSeq(s, 1, to)

RECURSIVE TrimLeft(_)
TrimLeft(s) ==
    IF s # <<>> /\ Head(s) = " " THEN TrimLeft(Tail(s)) ELSE s

RECURSIVE TrimRight(_)
TrimRight(s) ==
    IF s # <<>> /\ s[Len(s)] = " " THEN TrimRight(SubSeq(s, 1, Len(s) - 1)) ELSE s

\* strings.TrimSpace, for the blank character
TrimSpace(s) ==
    TrimRight(TrimLeft(s))

\* util: trimLower(str) = strings.TrimSpace(strings.ToLower(str))
trimLower(s) ==
    TrimSpace(ToLower(s))

(***************************************************************************)
(* Static tables and classifiers (metadata files of the repository).       *)
(***************************************************************************)
GenericTLDs ==
    {t_com, t_shop, t_org}

CountryCodeTLDs ==
    {t_ch, t_de}

\* the built-in disposable domains loaded by init()
disposableDomains ==
    {d_zzjbfwqi_shop}

freeDomains ==
    {d_gmail_com, d_yahoo_com}

roleAccounts ==
    {u_admin, u_postmaster}

\* idna.ToASCII leaves a domain of ASCII letters, digits and dots unchanged;
\* every domain of the model is ASCII.
domainToASCII(d) ==
    d

\* faulty variant: the input is not lower-cased
TopLevelDomainExists_CaseSensitive(email) ==
    LET lastDot == LastIndex(email, ".")
    IN IF lastDot = -1
       THEN FALSE
       ELSE LET tld == SliceFrom(email, lastDot + 1)
            IN tld \in GenericTLDs \/ tld \in CountryCodeTLDs

\* tld_check.go: the TLD is the text after the last dot, lower-cased
TopLevelDomainExists(email) ==
    LET lower == ToLower(email)
        lastDot == LastIndex(lower, ".")
    IN IF lastDot = -1
       THEN FALSE
       ELSE LET tld == SliceFrom(lower, lastDot + 1)
            IN tld \in GenericTLDs \/ tld \in CountryCodeTLDs

\* address.go: an address is valid when it has a non-empty local part without
\* blanks, an "@", and a dotted domain with non-empty labels around the last dot.
IsAddressValid(email) ==
    LET at == LastIndex(email, "@")
    IN /\ at > 0
       /\ \A i \in 1..Len(email) : email[i] # " "
       /\ \A i \in 1..at : email[i] # "@"
       /\ LET dom == SliceFrom(email, at + 1)
              dot == LastIndex(dom, ".")
          IN dot > 0 /\ dot + 1 < Len(dom)

\* address.go: ParseAddress splits at the last "@"; an invalid address gives
\* the zero Syntax with Valid = false.
ParseAddress(email) ==
    IF ~IsAddressValid(email)
    THEN [Username |-> <<>>, Domain |-> <<>>, Valid |-> FALSE]
    ELSE LET index == LastIndex(email, "@")
         IN [Username |-> SliceTo(email, index),
             Domain |-> ToLower(SliceFrom(email, index + 1)),
             Valid |-> TRUE]

IsFreeDomain(domain) ==
    domain \in freeDomains

IsRoleAccount(username) ==
    ToLower(username) \in roleAccounts

\* suggestion engine: the closest well-known domain, empty when there is none
SuggestDomain(domain) ==
    IF domain = d_gmai_com THEN d_gmail_com ELSE <<>>

(***************************************************************************)
(* Values.                                                                 *)
(***************************************************************************)
\* a nil pointer (*SMTP, *Gravatar, *Mx, *Result)
Nil ==
    [nil |-> TRUE]

\* a check's return value that has not been produced yet
Pending ==
    [pending |-> TRUE]

reachableUnknown ==
    "unknown"
reachableYes ==
    "yes"
reachableNo ==
    "no"

ErrNoSuchHost ==
    "no such host"
ErrMalformedRecords ==
    "DNS response contained records which contain invalid names"
ErrCanceled ==
    "context canceled"
ErrHTTP ==
    "http: transport error"

\* the four closures Verify hands to the runner, in launch order
CheckNames ==
    <<"mx", "smtp", "gravatar", "suggestion">>
NChecks ==
    Len(CheckNames)

\* the prefix each closure wraps its check's error in
FailedPrefix ==
    <<"CheckMX failed", "CheckSMTP failed", "CheckGravatar failed", "">>

(***************************************************************************)
(* The outside world: what the resolver, the mail servers and the gravatar *)
(* server answer when a lookup is left to complete.                        *)
(***************************************************************************)
\* the most MX records a DNS answer of the model carries
MaxMX ==
    2

MXHosts ==
    [n \in 1..MaxMX |-> [Host |-> <<"m", "x">>, Pref |-> n]]

\* net.Resolver.LookupMX returns (records, err). A name that does not exist and
\* a name that resolves but has no MX record both give "no such host" and no
\* records; a nil error always comes with at least one record; malformed
\* records are dropped and reported together with the valid ones.
DNSAnswers ==
    { [mx |-> MXHosts, err |-> ""],
      [mx |-> <<>>, err |-> ErrNoSuchHost],
      [mx |-> SubSeq(MXHosts, 1, MaxMX - 1), err |-> ErrMalformedRecords] }

SMTPRecord(hostExists, fullInbox, catchAll, deliverable, disabled) ==
    [HostExists |-> hostExists, FullInbox |-> fullInbox, CatchAll |-> catchAll,
     Deliverable |-> deliverable, Disabled |-> disabled]

\* the outcome of one SMTP session for one recipient
ProbeOutcome(hostExists, mailboxAccepted, fullInbox, serviceDisabled) ==
    [hostExists |-> hostExists, mailboxAccepted |-> mailboxAccepted,
     fullInbox |-> fullInbox, serviceDisabled |-> serviceDisabled]

\* no host could be connected to; the mailbox state stayed unknown or the
\* mailbox does not exist; the mailbox was accepted; it is full; the account
\* is disabled
ProbeOutcomes ==
    { ProbeOutcome(FALSE, FALSE, FALSE, FALSE),
      ProbeOutcome(TRUE, FALSE, FALSE, FALSE),
      ProbeOutcome(TRUE, TRUE, FALSE, FALSE),
      ProbeOutcome(TRUE, FALSE, TRUE, FALSE),
      ProbeOutcome(TRUE, FALSE, FALSE, TRUE) }

\* faulty variant: the catch-all probe is made whatever the primary probe found
CatchAllProbeInvoked_Always(primary) ==
    TRUE

\* the catch-all disambiguator is invoked only when the primary probe found
\* the host and neither a full inbox nor a disabled account
CatchAllProbeInvoked(primary) ==
    primary.hostExists /\ ~primary.fullInbox /\ ~primary.serviceDisabled

\* the mail servers of a domain that advertises some mail exchanger: what the
\* primary probe finds there and whether a synthetic recipient is accepted
\* (which shows only where the catch-all probe is made)
SMTPAnswers ==
    { srv \in [primary : ProbeOutcomes, acceptsAny : BOOLEAN] :
        srv.acceptsAny => CatchAllProbeInvoked(srv.primary) }

\* the probes CheckSMTP makes against srv, in order
SMTPProbes(srv) ==
    IF CatchAllProbeInvoked(srv.primary)
    THEN <<"primary", "catchAll">>
    ELSE <<"primary">>

\* faulty variant: deliverable is hostExists && mailboxAccepted
SMTPSummary_DeliverableAtCatchAll(srv) ==
    LET catchAll == CatchAllProbeInvoked(srv.primary) /\ srv.acceptsAny
    IN SMTPRecord(srv.primary.hostExists,
                  srv.primary.fullInbox,
                  catchAll,
                  srv.primary.hostExists /\ srv.primary.mailboxAccepted,
                  srv.primary.serviceDisabled)

\* the caller-visible summary of the probes: deliverable is
\* hostExists && mailboxAccepted && !catchAll
SMTPSummary(srv) ==
    LET catchAll == CatchAllProbeInvoked(srv.primary) /\ srv.acceptsAny
    IN SMTPRecord(srv.primary.hostExists,
                  srv.primary.fullInbox,
                  catchAll,
                  srv.primary.hostExists /\ srv.primary.mailboxAccepted /\ ~catchAll,
                  srv.primary.serviceDisabled)

StatusOK ==
    200
StatusNotFound ==
    404

\* the gravatar server's reply to GET <base>/<md5>?d=404
HTTPAnswers ==
    { [status |-> StatusOK, bodyIsDefault |-> FALSE, err |-> ""],
      [status |-> StatusNotFound, bodyIsDefault |-> FALSE, err |-> ""],
      [status |-> 0, bodyIsDefault |-> FALSE, err |-> ErrHTTP] }

NoDNS ==
    [mx |-> <<>>, err |-> ErrNoSuchHost]
NoSMTP ==
    [primary |-> ProbeOutcome(FALSE, FALSE, FALSE, FALSE), acceptsAny |-> FALSE]
NoHTTP ==
    [status |-> 0, bodyIsDefault |-> FALSE, err |-> ErrHTTP]

\* The answers a Verify call can meet, given the verifier's configuration: a
\* lookup that no enabled check performs is not part of the world of the call.
\* To bound the model, the answer with a malformed record is combined with
\* one SMTP answer only.
Worlds(vv) ==
    { w \in [dns : DNSAnswers, smtp : SMTPAnswers, http : HTTPAnswers] :
        /\ (~vv.mxCheckEnabled /\ ~vv.smtpCheckEnabled) => w.dns = NoDNS
        /\ (~vv.smtpCheckEnabled \/ Len(w.dns.mx) = 0) => w.smtp = NoSMTP
        /\ ~vv.gravatarCheckEnabled => w.http = NoHTTP
        /\ (vv.smtpCheckEnabled /\ w.dns.err = ErrMalformedRecords) =>
               w.smtp = [primary |-> ProbeOutcome(TRUE, TRUE, FALSE, FALSE),
                         acceptsAny |-> FALSE] }

(***************************************************************************)
(* The verifier and the result.                                            *)
(***************************************************************************)
NewVerifier ==
    [mxCheckEnabled |-> TRUE,
     smtpCheckEnabled |-> FALSE,
     catchAllCheckEnabled |-> TRUE,
     apiVerifiers |-> {},
     domainSuggestEnabled |-> FALSE,
     gravatarCheckEnabled |-> FALSE,
     TopLevelDomainDisabled |-> FALSE]

enabledOptions(vv) ==
    (IF vv.mxCheckEnabled THEN 1 ELSE 0)
    + (IF vv.smtpCheckEnabled THEN 1 ELSE 0)
    + (IF vv.gravatarCheckEnabled THEN 1 ELSE 0)
    + (IF vv.domainSuggestEnabled THEN 1 ELSE 0)

\* Result{Email: email, Reachable: reachableUnknown}
NewResult(em) ==
    [Email |-> em,
     Reachable |-> reachableUnknown,
     Syntax |-> [Username |-> <<>>, Domain |-> <<>>, Valid |-> FALSE],
     SMTP |-> Nil,
     Gravatar |-> Nil,
     Suggestion |-> <<>>,
     Disposable |-> FALSE,
     RoleAccount |-> FALSE,
     Free |-> FALSE,
     HasMxRecords |-> FALSE,
     TLDExists |-> FALSE]

\* faulty variant: a disabled SMTP check is classified like an undeliverable address
calculateReachable_NoWhenDisabled(vv, s) ==
    IF ~vv.smtpCheckEnabled THEN reachableNo
    ELSE IF s.Deliverable THEN reachableYes
    ELSE IF s.CatchAll THEN reachableUnknown
    ELSE reachableNo

\* faulty variant: the catch-all rule is applied before the deliverable rule
calculateReachable_CatchAllFirst(vv, s) ==
    IF ~vv.smtpCheckEnabled THEN reachableUnknown
    ELSE IF s.CatchAll THEN reachableUnknown
    ELSE IF s.Deliverable THEN reachableYes
    ELSE reachableNo

\* faulty variant: the catch-all rule is missing
calculateReachable_NoCatchAllRule(vv, s) ==
    IF ~vv.smtpCheckEnabled THEN reachableUnknown
    ELSE IF s.Deliverable THEN reachableYes
    ELSE reachableNo

calculateReachable(vv, s) ==
    IF ~vv.smtpCheckEnabled THEN reachableUnknown
    ELSE IF s.Deliverable THEN reachableYes
    ELSE IF s.CatchAll THEN reachableUnknown
    ELSE reachableNo

(***************************************************************************)
(* The checks. Each takes the state of the context it is given (cancelled  *)
(* or not, at the moment its network operation ends) and the world.        *)
(***************************************************************************)
\* net.DefaultResolver.LookupMX(ctx, domain)
LookupMX(cancelled, w) ==
    IF cancelled THEN [mx |-> <<>>, err |-> ErrCanceled] ELSE w.dns

\* faulty variant: the lookup's error is dropped
CheckMX_IgnoresError(vv, cancelled, w) ==
    IF ~vv.mxCheckEnabled
    THEN [val |-> [HasMXRecord |-> FALSE, Records |-> <<>>], err |-> ""]
    ELSE LET ans == LookupMX(cancelled, w)
         IN [val |-> [HasMXRecord |-> Len(ans.mx) > 0, Records |-> ans.mx],
             err |-> ""]

\* faulty variant: the lookup is made although MX checking is disabled
CheckMX_LooksUpWhenDisabled(vv, cancelled, w) ==
    LET ans == LookupMX(cancelled, w)
    IN IF ans.err # "" /\ Len(ans.mx) = 0
       THEN [val |-> Nil, err |-> ans.err]
       ELSE [val |-> [HasMXRecord |-> Len(ans.mx) > 0, Records |-> ans.mx],
             err |-> ""]

CheckMX(vv, cancelled, w) ==
    IF ~vv.mxCheckEnabled
    THEN [val |-> [HasMXRecord |-> FALSE, Records |-> <<>>], err |-> ""]
    ELSE LET ans == LookupMX(cancelled, w)
         IN IF ans.err # "" /\ Len(ans.mx) = 0
            THEN [val |-> Nil, err |-> ans.err]
            ELSE [val |-> [HasMXRecord |-> Len(ans.mx) > 0, Records |-> ans.mx],
                  err |-> ""]

\* the vendor names EnableAPIVerifier is called with: the supported one
\* (line 213) and one that is not
YAHOO ==
    "yahoo"
VendorNames ==
    {YAHOO, "gmail"}

\* whether an enabled API verifier answers for the domain
APIVerified(vv, domain) ==
    YAHOO \in vv.apiVerifiers /\ domain = d_yahoo_com

\* what the call sees of the server: a call that makes no catch-all probe
\* (the catch-all check is disabled, lines 239-243, or the vendor's API
\* answers for the mailbox) does not see that the server accepts any
\* recipient
ServerAsProbed(vv, domain, srv) ==
    IF vv.catchAllCheckEnabled /\ ~APIVerified(vv, domain) THEN srv
    ELSE [srv EXCEPT !.acceptsAny = FALSE]

\* the sessions the call makes
ProbesMade(vv, domain, srv) ==
    IF APIVerified(vv, domain) THEN <<"api">>
    ELSE IF vv.catchAllCheckEnabled THEN SMTPProbes(srv)
    ELSE <<"primary">>

\* smtp.go: disabled gives (nil, nil); with no mail exchanger to dial the
\* lookup failure is returned; otherwise the summary of the probes. probes
\* lists the sessions the call made.
CheckSMTP(vv, cancelled, w, domain) ==
    IF ~vv.smtpCheckEnabled THEN [val |-> Nil, err |-> "", probes |-> <<>>]
    ELSE IF cancelled THEN [val |-> Nil, err |-> ErrCanceled, probes |-> <<>>]
    ELSE IF Len(w.dns.mx) = 0 THEN [val |-> Nil, err |-> w.dns.err, probes |-> <<>>]
    ELSE [val |-> SMTPSummary(ServerAsProbed(vv, domain, w.smtp)),
          err |-> "",
          probes |-> ProbesMade(vv, domain, w.smtp)]

\* http.DefaultClient.Do(req.WithContext(ctx)) and io.ReadAll(resp.Body)
HTTPGet(cancelled, w) ==
    IF cancelled
    THEN [status |-> 0, bodyIsDefault |-> FALSE, err |-> ErrCanceled]
    ELSE w.http

CheckGravatar(vv, cancelled, w) ==
    IF ~vv.gravatarCheckEnabled THEN [val |-> Nil, err |-> ""]
    ELSE LET resp == HTTPGet(cancelled, w)
         IN IF resp.err # "" THEN [val |-> Nil, err |-> resp.err]
            ELSE IF resp.bodyIsDefault \/ resp.status # StatusOK
            THEN [val |-> [HasGravatar |-> FALSE, GravatarUrl |-> ""], err |-> ""]
            ELSE [val |-> [HasGravatar |-> TRUE,
                           GravatarUrl |-> "gravatarBaseUrl+md5+?d=404"],
                  err |-> ""]

\* whether closure i has a network operation that watches the context
IsNetworkCheck(vv, i) ==
    \/ i = 1 /\ vv.mxCheckEnabled
    \/ i = 2 /\ vv.smtpCheckEnabled
    \/ i = 3 /\ vv.gravatarCheckEnabled

(***************************************************************************)
(* The four closures of Verify.                                            *)
(***************************************************************************)
\* what the check called by closure i returns
CheckCall(i, vv, cancelled, w, r) ==
    CASE i = 1 -> CheckMX(vv, cancelled, w)
      [] i = 2 -> CheckSMTP(vv, cancelled, w, r.Syntax.Domain)
      [] i = 3 -> CheckGravatar(vv, cancelled, w)
      [] i = 4 -> [val |-> IF vv.domainSuggestEnabled
                           THEN SuggestDomain(r.Syntax.Domain)
                           ELSE r.Suggestion,
                   err |-> ""]

\* the error closure i returns: nil (the empty list) or the wrapped error
ClosureErr(i, out) ==
    IF out.err = "" THEN <<>>
    ELSE <<[op |-> FailedPrefix[i], cause |-> out.err]>>

\* faulty variant: the SMTP closure records the verdict before it looks at
\* the error of the check
ClosureRet_VerdictBeforeError(i, vv, r, out) ==
    IF out.err # ""
    THEN IF i = 2 /\ vv.smtpCheckEnabled
         THEN [r EXCEPT !.Reachable =
                   calculateReachable(vv, SMTPRecord(FALSE, FALSE, FALSE, FALSE, FALSE))]
         ELSE r
    ELSE CASE i = 1 -> [r EXCEPT !.HasMxRecords = out.val.HasMXRecord]
           [] i = 2 -> [r EXCEPT !.SMTP = out.val,
                                 !.Reachable = calculateReachable(vv, out.val)]
           [] i = 3 -> [r EXCEPT !.Gravatar = out.val]
           [] i = 4 -> [r EXCEPT !.Suggestion = out.val]

\* faulty variant: a failed SMTP check marks the address unreachable
ClosureRet_FailedSMTPIsNo(i, vv, r, out) ==
    IF out.err # ""
    THEN IF i = 2 THEN [r EXCEPT !.Reachable = reachableNo] ELSE r
    ELSE CASE i = 1 -> [r EXCEPT !.HasMxRecords = out.val.HasMXRecord]
           [] i = 2 -> [r EXCEPT !.SMTP = out.val,
                                 !.Reachable = calculateReachable(vv, out.val)]
           [] i = 3 -> [r EXCEPT !.Gravatar = out.val]
           [] i = 4 -> [r EXCEPT !.Suggestion = out.val]

\* faulty variant: the SMTP closure also records whether a mail host exists
ClosureRet_SMTPWritesMx(i, vv, r, out) ==
    IF out.err # "" THEN r
    ELSE CASE i = 1 -> [r EXCEPT !.HasMxRecords = out.val.HasMXRecord]
           [] i = 2 -> [r EXCEPT !.SMTP = out.val,
                                 !.Reachable = calculateReachable(vv, out.val),
                                 !.HasMxRecords = (out.val # Nil /\ out.val.HostExists)]
           [] i = 3 -> [r EXCEPT !.Gravatar = out.val]
           [] i = 4 -> [r EXCEPT !.Suggestion = out.val]

\* the result after closure i, which writes only when its check succeeded
ClosureRet(i, vv, r, out) ==
    IF out.err # "" THEN r
    ELSE CASE i = 1 -> [r EXCEPT !.HasMxRecords = out.val.HasMXRecord]
           [] i = 2 -> [r EXCEPT !.SMTP = out.val,
                                 !.Reachable = calculateReachable(vv, out.val)]
           [] i = 3 -> [r EXCEPT !.Gravatar = out.val]
           [] i = 4 -> [r EXCEPT !.Suggestion = out.val]

(***************************************************************************)
(* The two runners.                                                        *)
(***************************************************************************)
\* faulty variant: noGroup.Go drops the closure's error
noGroupGo_DropsError(ngerr, e) ==
    ngerr

\* noGroup.Go: ng.err = errors.Join(ng.err, err)
noGroupGo(ngerr, e) ==
    IF e # <<>> THEN ngerr \o e ELSE ngerr

\* errgroup.Group.Go: errOnce keeps the first error
errgroupGo(egerr, e) ==
    IF e # <<>> /\ egerr = <<>> THEN e ELSE egerr

\* faulty variant: a failing closure does not cancel the group's context
errgroupCancel_Never(egerr, e, wasCancelled) ==
    wasCancelled

\* errgroup.Group.Go: the first error cancels the group's derived context
errgroupCancel(egerr, e, wasCancelled) ==
    wasCancelled \/ (e # <<>> /\ egerr = <<>>)

\* errgroup.WithContext never cancels its parent
parentAfterError(parentDone, e) ==
    parentDone

(***************************************************************************)
(* Verify, lines 88-119: everything before the checks are launched.        *)
(* stage tells where the call goes: "syntax", "tld" and "disposable" are   *)
(* the three early returns, "checks" continues to the runner.              *)
(***************************************************************************)
TLDError(domainIDNA) ==
    <<[op |-> "TLD domain does not exist", domain |-> domainIDNA]>>

IsDisposable(disposable, domain) ==
    domainToASCII(domain) \in disposable

\* faulty variant: the early return on a syntax failure is missing
PrologueStage_NoSyntaxReturn(vv, syntax, isDisposable) ==
    IF /\ ~vv.TopLevelDomainDisabled
       /\ ~TopLevelDomainExists(domainToASCII(syntax.Domain))
    THEN "tld"
    ELSE IF isDisposable THEN "disposable"
    ELSE "checks"

\* faulty variant: the disposable short-circuit is taken before the TLD check
PrologueStage_DisposableFirst(vv, syntax, isDisposable) ==
    IF ~syntax.Valid THEN "syntax"
    ELSE IF isDisposable THEN "disposable"
    ELSE IF /\ ~vv.TopLevelDomainDisabled
            /\ ~TopLevelDomainExists(domainToASCII(syntax.Domain))
    THEN "tld"
    ELSE "checks"

\* faulty variant: the disposable short-circuit is missing
PrologueStage_NoDisposableReturn(vv, syntax, isDisposable) ==
    IF ~syntax.Valid THEN "syntax"
    ELSE IF /\ ~vv.TopLevelDomainDisabled
            /\ ~TopLevelDomainExists(domainToASCII(syntax.Domain))
    THEN "tld"
    ELSE "checks"

\* lines 96-113: which of the early returns, if any, the call takes
PrologueStage(vv, syntax, isDisposable) ==
    IF ~syntax.Valid THEN "syntax"
    ELSE IF /\ ~vv.TopLevelDomainDisabled
            /\ ~TopLevelDomainExists(domainToASCII(syntax.Domain))
    THEN "tld"
    ELSE IF isDisposable THEN "disposable"
    ELSE "checks"

VerifyPrologue(vv, disposable, rawEmail) ==
    LET em == trimLower(rawEmail)
        syntax == ParseAddress(em)
        r1 == [NewResult(em) EXCEPT !.Syntax = syntax]
        r2 == [r1 EXCEPT !.Free = IsFreeDomain(syntax.Domain),
                         !.RoleAccount = IsRoleAccount(syntax.Username),
                         !.Disposable = IsDisposable(disposable, syntax.Domain)]
        r3 == [r2 EXCEPT !.TLDExists = ~vv.TopLevelDomainDisabled]
        st == PrologueStage(vv, syntax, r2.Disposable)
    IN CASE st = "syntax" ->
              [stage |-> st, ret |-> r1, result |-> r1, err |-> <<>>]
         [] st = "tld" ->
              [stage |-> st, ret |-> r2, result |-> Nil,
               err |-> TLDError(domainToASCII(syntax.Domain))]
         [] st = "disposable" ->
              [stage |-> st, ret |-> r3, result |-> r3, err |-> <<>>]
         [] st = "checks" ->
              [stage |-> st, ret |-> r3, result |-> Pending, err |-> <<>>]

\* lines 116-119: the runner
ChooseRunner(vv) ==
    IF enabledOptions(vv) > 1 THEN "errgroup" ELSE "noGroup"

(***************************************************************************)
(* State.                                                                  *)
(***************************************************************************)
VARIABLES
    v,                            \* the Verifier's fields
    disposableSyncDomains,        \* process-wide sync.Map of disposable domains
    additionalDisposableDomains,  \* process-wide map set through the library
    pc,                           \* "idle", "checks" (lines 121-158), "done"
    email,                        \* Verify's argument
    world,                        \* what the outside world answers in this call
    ctxDone,                      \* the caller's context is cancelled
    ret,                          \* Verify's local ret
    stage,                        \* the path the call took
    g,                            \* the runner: "noGroup" or "errgroup"
    ngErr,                        \* noGroup.err
    egErr,                        \* errgroup.Group.err
    egDone,                       \* the errgroup's derived context is cancelled
    launched,                     \* how many g.Go calls Verify has made
    chk,                          \* per closure: "new", "running", "returned", "finished"
    outs,                         \* per closure: what its check returned
    result,                       \* the *Result Verify returned
    err,                          \* the error Verify returned
    adders,                       \* per goroutine calling AddDisposableDomains: its position
    fatal,                        \* the runtime aborted the process
    schedule,                     \* v.schedule: 0 for nil, or the schedule it points to
    refreshers,                   \* the schedules whose refresher goroutine is running
    created,                      \* how many schedules newSchedule has made
    apc                           \* where the caller of Enable/DisableAutoUpdateDisposable is

vars ==
    <<v, disposableSyncDomains, additionalDisposableDomains, pc, email, world,
      ctxDone, ret, stage, g, ngErr, egErr, egDone, launched, chk, outs,
      result, err, adders, fatal, schedule, refreshers, created, apc>>

scheduleVars ==
    <<schedule, refreshers, created, apc>>

verifierVars ==
    <<v, disposableSyncDomains, additionalDisposableDomains, adders, fatal,
      schedule, refreshers, created, apc>>

\* the goroutines of the model that call AddDisposableDomains
NCallers ==
    2

Callers ==
    1..NCallers

\* a goroutine that is not inside AddDisposableDomains
NotAdding ==
    [domains |-> <<>>, i |-> 0, at |-> "idle"]

callVars ==
    <<pc, email, world, ctxDone, ret, stage, g, ngErr, egErr, egDone, launched,
      chk, outs, result, err>>

NoWorld ==
    [dns |-> NoDNS, smtp |-> NoSMTP, http |-> NoHTTP]

\* no Verify call in progress
NoCall ==
    /\ pc = "idle"
    /\ email = <<>>
    /\ world = NoWorld
    /\ ctxDone = FALSE
    /\ ret = NewResult(<<>>)
    /\ stage = "none"
    /\ g = "noGroup"
    /\ ngErr = <<>>
    /\ egErr = <<>>
    /\ egDone = FALSE
    /\ launched = 0
    /\ chk = [i \in 1..NChecks |-> "new"]
    /\ outs = [i \in 1..NChecks |-> Pending]
    /\ result = Pending
    /\ err = <<>>

\* the lists of domains a user registers
DomainLists ==
    { <<d_override_de, d_override_testing>> }

Init ==
    /\ v = NewVerifier
    /\ disposableSyncDomains = disposableDomains
    /\ additionalDisposableDomains = {}
    /\ adders = [a \in Callers |-> NotAdding]
    /\ fatal = FALSE
    /\ schedule = 0
    /\ refreshers = {}
    /\ created = 0
    /\ apc = "idle"
    /\ NoCall

\* faulty variant: the group's context is derived from a fresh background context
\* instead of the caller's
CtxCancelled_IgnoresCaller ==
    g = "errgroup" /\ egDone

\* the context the closures capture: the caller's, or the errgroup's child of it
CtxCancelled ==
    ctxDone \/ (g = "errgroup" /\ egDone)

(***************************************************************************)
(* Configuration.                                                          *)
(***************************************************************************)
Configure(field, value) ==
    /\ pc = "idle"
    /\ v' = [v EXCEPT ![field] = value]
    /\ UNCHANGED <<disposableSyncDomains, additionalDisposableDomains, adders,
                   fatal>>
    /\ UNCHANGED scheduleVars
    /\ UNCHANGED callVars

EnableMXCheck == Configure("mxCheckEnabled", TRUE)
DisableMXCheck == Configure("mxCheckEnabled", FALSE)
EnableSMTPCheck == Configure("smtpCheckEnabled", TRUE)
DisableSMTPCheck == Configure("smtpCheckEnabled", FALSE)
EnableGravatarCheck == Configure("gravatarCheckEnabled", TRUE)
DisableGravatarCheck == Configure("gravatarCheckEnabled", FALSE)
EnableDomainSuggest == Configure("domainSuggestEnabled", TRUE)
DisableDomainSuggest == Configure("domainSuggestEnabled", FALSE)
EnableCatchAllCheck == Configure("catchAllCheckEnabled", TRUE)
DisableCatchAllCheck == Configure("catchAllCheckEnabled", FALSE)

\* lines 211-219: the verifier of a supported vendor is put in the map; for
\* any other name the call returns an error and changes nothing
EnableAPIVerifier(name) ==
    Configure("apiVerifiers",
              IF name = YAHOO THEN v.apiVerifiers \cup {YAHOO} ELSE v.apiVerifiers)

\* lines 221-223: delete(v.apiVerifiers, name)
DisableAPIVerifier(name) ==
    Configure("apiVerifiers", v.apiVerifiers \ {name})

\* the exported field TopLevelDomainDisabled is set directly by the user
SetTopLevelDomainDisabled(b) ==
    Configure("TopLevelDomainDisabled", b)

(***************************************************************************)
(* AddDisposableDomains (lines 166-172), statement by statement: a loop of *)
(* two writes for each domain, between which the other goroutines run.     *)
(***************************************************************************)
\* line 166: goroutine a calls AddDisposableDomains(domains)
AddCall(a, domains) ==
    /\ ~fatal
    /\ adders[a].at = "idle"
    /\ adders' = [adders EXCEPT ![a] =
                     IF Len(domains) = 0 THEN NotAdding
                     ELSE [domains |-> domains, i |-> 1, at |-> "assign"]]
    /\ UNCHANGED <<v, disposableSyncDomains, additionalDisposableDomains, fatal>>
    /\ UNCHANGED scheduleVars
    /\ UNCHANGED callVars

\* line 168: the assignment to the plain map additionalDisposableDomains
\* begins; a Go map assignment is not atomic
AddMapAssignBegin(a) ==
    /\ ~fatal
    /\ adders[a].at = "assign"
    /\ adders' = [adders EXCEPT ![a].at = "assigning"]
    /\ UNCHANGED <<v, disposableSyncDomains, additionalDisposableDomains, fatal>>
    /\ UNCHANGED scheduleVars
    /\ UNCHANGED callVars

\* line 168: the assignment ends. When another goroutine is inside an
\* assignment to the same map, the writes race: the assignment may go through
\* or the runtime aborts the process ("fatal error: concurrent map writes").
AddMapAssignEnd(a) ==
    /\ ~fatal
    /\ adders[a].at = "assigning"
    /\ \/ /\ additionalDisposableDomains' =
                 additionalDisposableDomains \cup {adders[a].domains[adders[a].i]}
          /\ adders' = [adders EXCEPT ![a].at = "store"]
          /\ UNCHANGED fatal
       \/ /\ \E b \in Callers \ {a} : adders[b].at = "assigning"
          /\ fatal' = TRUE
          /\ UNCHANGED <<additionalDisposableDomains, adders>>
    /\ UNCHANGED <<v, disposableSyncDomains>>
    /\ UNCHANGED scheduleVars
    /\ UNCHANGED callVars

\* line 169: disposableSyncDomains.Store(d, struct{}{}), then the next
\* iteration of the loop or the return at line 171
AddStore(a) ==
    /\ ~fatal
    /\ adders[a].at = "store"
    /\ disposableSyncDomains' =
           disposableSyncDomains \cup {adders[a].domains[adders[a].i]}
    /\ adders' = [adders EXCEPT ![a] =
                     IF adders[a].i = Len(adders[a].domains) THEN NotAdding
                     ELSE [adders[a] EXCEPT !.i = adders[a].i + 1,
                                            !.at = "assign"]]
    /\ UNCHANGED <<v, additionalDisposableDomains, fatal>>
    /\ UNCHANGED scheduleVars
    /\ UNCHANGED callVars

(***************************************************************************)
(* Verify.                                                                 *)
(***************************************************************************)
\* lines 87-119
Verify(rawEmail, w) ==
    /\ pc = "idle"
    /\ LET p == VerifyPrologue(v, disposableSyncDomains, rawEmail)
       IN /\ email' = rawEmail
          /\ ret' = p.ret
          /\ stage' = p.stage
          /\ result' = p.result
          /\ err' = p.err
          /\ pc' = IF p.stage = "checks" THEN "checks" ELSE "done"
          /\ world' = IF p.stage = "checks" THEN w ELSE NoWorld
          /\ g' = IF p.stage = "checks" THEN ChooseRunner(v) ELSE "noGroup"
    /\ UNCHANGED <<ctxDone, ngErr, egErr, egDone, launched, chk, outs>>
    /\ UNCHANGED verifierVars

\* a caller calls Verify with some address, in some world
VerifyCall ==
    /\ pc = "idle"
    /\ \E rawEmail \in Emails : \E w \in Worlds(v) : Verify(rawEmail, w)

\* the caller cancels the context it passed (or its deadline expires)
CallerCancel ==
    /\ pc = "checks"
    /\ ~ctxDone
    /\ ctxDone' = TRUE
    /\ UNCHANGED <<pc, email, world, ret, stage, g, ngErr, egErr, egDone,
                   launched, chk, outs, result, err>>
    /\ UNCHANGED verifierVars

\* g.Go(closure i), lines 121, 130, 141, 151. noGroup runs the closure inline,
\* so the next g.Go is reached only when the closure has returned; the
\* errgroup starts a goroutine and goes on.
GoCheck(i) ==
    /\ pc = "checks"
    /\ launched = i - 1
    /\ g = "noGroup" => \A j \in 1..(i-1) : chk[j] = "finished"
    /\ launched' = i
    /\ chk' = [chk EXCEPT ![i] = "running"]
    /\ UNCHANGED <<pc, email, world, ctxDone, ret, stage, g, ngErr, egErr,
                   egDone, outs, result, err>>
    /\ UNCHANGED verifierVars

\* The closures' steps below are not tied to where Verify itself is: a
\* goroutine the errgroup started runs until its closure ends.
\* The check called by network closure i returns (lines 122, 131, 142): its
\* network operation ended, with the world's answer or, when the context was
\* cancelled by then, with the cancellation.
CheckReturns(i) ==
    /\ pc # "idle"
    /\ chk[i] = "running"
    /\ IsNetworkCheck(v, i)
    /\ outs' = [outs EXCEPT ![i] = CheckCall(i, v, CtxCancelled, world, ret)]
    /\ chk' = [chk EXCEPT ![i] = "returned"]
    /\ UNCHANGED <<pc, email, world, ctxDone, ret, stage, g, ngErr, egErr,
                   egDone, launched, result, err>>
    /\ UNCHANGED verifierVars

\* what the runner and ret look like after closure i has returned with out:
\* the closure writes its field of ret and returns nil, or returns its wrapped
\* error (noGroup.Go joins it; the errgroup keeps the first one and cancels
\* its context).
ClosureEnds(i, out) ==
    LET e == ClosureErr(i, out)
    IN /\ ret' = ClosureRet(i, v, ret, out)
       /\ ngErr' = IF g = "noGroup" THEN noGroupGo(ngErr, e) ELSE ngErr
       /\ egErr' = IF g = "errgroup" THEN errgroupGo(egErr, e) ELSE egErr
       /\ egDone' = IF g = "errgroup" THEN errgroupCancel(egErr, e, egDone)
                    ELSE egDone
       /\ ctxDone' = parentAfterError(ctxDone, e)
       /\ chk' = [chk EXCEPT ![i] = "finished"]

\* network closure i ends after its check has returned (lines 123-127,
\* 132-138, 143-148)
ClosureReturns(i) ==
    /\ pc # "idle"
    /\ chk[i] = "returned"
    /\ ClosureEnds(i, outs[i])
    /\ UNCHANGED <<pc, email, world, stage, g, launched, outs, result, err>>
    /\ UNCHANGED verifierVars

\* a closure without a network operation runs to its end in one step: the
\* closure of a disabled check (the check returns at once) and the suggestion
\* closure (lines 151-156)
LocalClosureRuns(i) ==
    /\ pc # "idle"
    /\ chk[i] = "running"
    /\ ~IsNetworkCheck(v, i)
    /\ LET out == CheckCall(i, v, CtxCancelled, world, ret)
       IN /\ outs' = [outs EXCEPT ![i] = out]
          /\ ClosureEnds(i, out)
    /\ UNCHANGED <<pc, email, world, stage, g, launched, result, err>>
    /\ UNCHANGED verifierVars

\* noGroup.Wait
noGroupWait(ngerr) ==
    ngerr

\* errgroup.Group.Wait: the first error, after every goroutine has ended
errgroupWait(egerr) ==
    egerr

\* faulty variant: Wait returns as soon as some closure has ended
WaitReady_AnyClosureEnded(states) ==
    \E i \in 1..NChecks : states[i] = "finished"

\* whether g.Wait() can return: the errgroup waits for its goroutines; with
\* noGroup every closure has already run.
WaitReady(states) ==
    \A i \in 1..NChecks : states[i] = "finished"

\* lines 158-162: g.Wait() and the return
Wait ==
    /\ pc = "checks"
    /\ launched = NChecks
    /\ WaitReady(chk)
    /\ err' = IF g = "noGroup" THEN noGroupWait(ngErr) ELSE errgroupWait(egErr)
    /\ result' = ret
    /\ egDone' = (egDone \/ g = "errgroup")
    /\ pc' = "done"
    /\ UNCHANGED <<email, world, ctxDone, ret, stage, g, ngErr, egErr, launched,
                   chk, outs>>
    /\ UNCHANGED verifierVars

\* the caller takes the result; the verifier is ready for the next call
Return ==
    /\ pc = "done"
    /\ pc' = "idle"
    /\ email' = <<>>
    /\ world' = NoWorld
    /\ ctxDone' = FALSE
    /\ ret' = NewResult(<<>>)
    /\ stage' = "none"
    /\ g' = "noGroup"
    /\ ngErr' = <<>>
    /\ egErr' = <<>>
    /\ egDone' = FALSE
    /\ launched' = 0
    /\ chk' = [i \in 1..NChecks |-> "new"]
    /\ outs' = [i \in 1..NChecks |-> Pending]
    /\ result' = Pending
    /\ err' = <<>>
    /\ UNCHANGED verifierVars

Next ==
    \/ EnableMXCheck
    \/ DisableMXCheck
    \/ EnableSMTPCheck
    \/ DisableSMTPCheck
    \/ EnableGravatarCheck
    \/ DisableGravatarCheck
    \/ EnableDomainSuggest
    \/ DisableDomainSuggest
    \/ \E b \in BOOLEAN : SetTopLevelDomainDisabled(b)
    \/ pc = "idle" /\ \E domains \in DomainLists : AddCall(1, domains)
    \/ pc = "idle" /\ AddMapAssignBegin(1)
    \/ pc = "idle" /\ AddMapAssignEnd(1)
    \/ pc = "idle" /\ AddStore(1)
    \/ adders[1].at = "idle" /\ VerifyCall
    \/ CallerCancel
    \/ \E i \in 1..NChecks : GoCheck(i)
    \/ \E i \in 1..NChecks : CheckReturns(i)
    \/ \E i \in 1..NChecks : ClosureReturns(i)
    \/ \E i \in 1..NChecks : LocalClosureRuns(i)
    \/ Wait
    \/ Return

\* One goroutine of the user configures the verifier, registers domains and
\* calls Verify, one call after the other: while it is inside
\* AddDisposableDomains it is not inside Verify, and the other way round.
\* Goroutines that register while another one calls Verify are
\* ConcurrentSpec's.
Spec ==
    Init /\ [][Next]_vars

\* Scheduling: Verify's goroutine and every closure that can take a local
\* step eventually take it. A network operation is only assumed to end once
\* the context it watches is cancelled; left alone it may take arbitrarily
\* long.
FairSpec ==
    /\ Spec
    /\ \A i \in 1..NChecks :
          /\ WF_vars(GoCheck(i))
          /\ WF_vars(CtxCancelled /\ CheckReturns(i))
          /\ WF_vars(ClosureReturns(i))
          /\ WF_vars(LocalClosureRuns(i))
    /\ WF_vars(Wait)

(***************************************************************************)
(* The SMTP check under every setting of its switches: Verify calls on a   *)
(* verifier whose SMTP check, catch-all check and API verifiers are        *)
(* switched on and off, for a mailbox at an ordinary domain and one at a   *)
(* vendor with an API verifier.                                            *)
(***************************************************************************)
SMTPEmails ==
    {s_typo, s_yahoo}

SMTPNext ==
    \/ EnableSMTPCheck
    \/ DisableSMTPCheck
    \/ EnableCatchAllCheck
    \/ DisableCatchAllCheck
    \/ \E name \in VendorNames : EnableAPIVerifier(name)
    \/ \E name \in VendorNames : DisableAPIVerifier(name)
    \/ \E rawEmail \in SMTPEmails : \E w \in Worlds(v) : Verify(rawEmail, w)
    \/ CallerCancel
    \/ \E i \in 1..NChecks : GoCheck(i)
    \/ \E i \in 1..NChecks : CheckReturns(i)
    \/ \E i \in 1..NChecks : ClosureReturns(i)
    \/ \E i \in 1..NChecks : LocalClosureRuns(i)
    \/ Wait
    \/ Return

SMTPSpec ==
    Init /\ [][SMTPNext]_vars

(***************************************************************************)
(* AddDisposableDomains statement by statement, called by several          *)
(* goroutines while another goroutine calls Verify. The verifier keeps its *)
(* default configuration.                                                  *)
(***************************************************************************)
\* nothing runs once the runtime has aborted the process
ConcurrentNext ==
    \/ \E a \in Callers : \E domains \in DomainLists : AddCall(a, domains)
    \/ \E a \in Callers : AddMapAssignBegin(a)
    \/ \E a \in Callers : AddMapAssignEnd(a)
    \/ \E a \in Callers : AddStore(a)
    \/ ~fatal /\ VerifyCall
    \/ ~fatal /\ \E i \in 1..NChecks : GoCheck(i)
    \/ ~fatal /\ \E i \in 1..NChecks : CheckReturns(i)
    \/ ~fatal /\ \E i \in 1..NChecks : ClosureReturns(i)
    \/ ~fatal /\ \E i \in 1..NChecks : LocalClosureRuns(i)
    \/ ~fatal /\ Wait
    \/ ~fatal /\ Return

ConcurrentSpec ==
    Init /\ [][ConcurrentNext]_vars

(***************************************************************************)
(* The refresher of the disposable domains: EnableAutoUpdateDisposable and *)
(* DisableAutoUpdateDisposable statement by statement, called one after    *)
(* the other on one verifier, between the other configuration calls.       *)
(***************************************************************************)
\* the most schedules newSchedule makes in a run of the model
MaxSchedules ==
    3

\* the list of disposable domains the remote source serves
RemoteDomains ==
    {d_override_de}

\* faulty variant: stop leaves the refresher running
scheduleStop_LeavesRunning(running, s) ==
    running

\* schedule.stop(), when it returns: the refresher of schedule s is cancelled.
\* stopCurrentSchedule also calls it on a schedule that was stopped before
\* (Enable after Disable, as in part_001:421-430, v.schedule staying set);
\* no refresher runs for such a schedule, before or after.
scheduleStop(running, s) ==
    running \ {s}

\* schedule.start(): the refresher goroutine of schedule s runs
scheduleStart(running, s) ==
    running \cup {s}

\* updateDisposableDomains(disposableDataURL): the fetched list extends the
\* store; a failed fetch leaves it as it is
updateDisposableDomains(store, fetched) ==
    IF fetched THEN store \cup RemoteDomains ELSE store

\* line 258: EnableAutoUpdateDisposable is called; its first statement is
\* v.stopCurrentSchedule()
EnableAutoUpdateDisposable ==
    /\ apc = "idle"
    /\ created < MaxSchedules
    /\ apc' = "enable_stop"
    /\ UNCHANGED <<v, disposableSyncDomains, additionalDisposableDomains, adders,
                   fatal, schedule, refreshers, created>>
    /\ UNCHANGED callVars

\* line 268: DisableAutoUpdateDisposable is called
DisableAutoUpdateDisposable ==
    /\ apc = "idle"
    /\ apc' = "disable_stop"
    /\ UNCHANGED <<v, disposableSyncDomains, additionalDisposableDomains, adders,
                   fatal, schedule, refreshers, created>>
    /\ UNCHANGED callVars

\* lines 320-324, called at lines 259 and 269: v.schedule.stop() unless
\* v.schedule is nil; DisableAutoUpdateDisposable then returns
stopCurrentSchedule ==
    /\ apc \in {"enable_stop", "disable_stop"}
    /\ refreshers' = IF schedule # 0 THEN scheduleStop(refreshers, schedule)
                     ELSE refreshers
    /\ apc' = IF apc = "enable_stop" THEN "enable_update" ELSE "idle"
    /\ UNCHANGED <<v, disposableSyncDomains, additionalDisposableDomains, adders,
                   fatal, schedule, created>>
    /\ UNCHANGED callVars

\* line 261: _ = updateDisposableDomains(disposableDataURL)
FetchBeforeSchedule(fetched) ==
    /\ apc = "enable_update"
    /\ disposableSyncDomains' = updateDisposableDomains(disposableSyncDomains, fetched)
    /\ apc' = "enable_start"
    /\ UNCHANGED <<v, additionalDisposableDomains, adders, fatal, schedule,
                   refreshers, created>>
    /\ UNCHANGED callVars

\* lines 263-265: v.schedule = newSchedule(...); v.schedule.start(); return v
StartNewSchedule ==
    /\ apc = "enable_start"
    /\ created' = created + 1
    /\ schedule' = created + 1
    /\ refreshers' = scheduleStart(refreshers, created + 1)
    /\ apc' = "idle"
    /\ UNCHANGED <<v, disposableSyncDomains, additionalDisposableDomains, adders,
                   fatal>>
    /\ UNCHANGED callVars

\* the refresher goroutine of schedule s runs its job on a tick
RefresherTick(s, fetched) ==
    /\ s \in refreshers
    /\ disposableSyncDomains' = updateDisposableDomains(disposableSyncDomains, fetched)
    /\ UNCHANGED <<v, additionalDisposableDomains, adders, fatal>>
    /\ UNCHANGED scheduleVars
    /\ UNCHANGED callVars

ScheduleNext ==
    \/ EnableMXCheck
    \/ DisableMXCheck
    \/ EnableSMTPCheck
    \/ DisableSMTPCheck
    \/ EnableGravatarCheck
    \/ DisableGravatarCheck
    \/ EnableDomainSuggest
    \/ DisableDomainSuggest
    \/ \E b \in BOOLEAN : SetTopLevelDomainDisabled(b)
    \/ \E domains \in DomainLists : AddCall(1, domains)
    \/ AddMapAssignBegin(1)
    \/ AddMapAssignEnd(1)
    \/ AddStore(1)
    \/ EnableAutoUpdateDisposable
    \/ DisableAutoUpdateDisposable
    \/ stopCurrentSchedule
    \/ \E fetched \in BOOLEAN : FetchBeforeSchedule(fetched)
    \/ StartNewSchedule
    \/ \E s \in 1..MaxSchedules : \E fetched \in BOOLEAN : RefresherTick(s, fetched)

\* Scheduling: the goroutine that called Enable/DisableAutoUpdateDisposable
\* goes on to its next statement, and schedule.stop() is taken to return,
\* which is the assumption most favourable to the calls completing. The fetch
\* at line 261 is a network operation that is given no context and no
\* deadline: as for the checks of Verify, nothing is assumed about when a
\* network operation that nobody cancels ends.
ScheduleSpec ==
    /\ Init
    /\ [][ScheduleNext]_vars
    /\ WF_vars(stopCurrentSchedule)
    /\ WF_vars(StartNewSchedule)

(***************************************************************************)
(* The pure functions on their own: calculateReachable and                 *)
(* TopLevelDomainExists applied to every argument of a bounded set. email  *)
(* holds the text given to TopLevelDomainExists, outs[2] the SMTP summary  *)
(* given to calculateReachable; the value returned goes to ret.            *)
(***************************************************************************)
\* the longest text given to TopLevelDomainExists
MaxDomainLen ==
    4

\* the characters of those texts: the letters of the TLD "ch" in both cases,
\* and the dot
DomainChars ==
    {"c", "h", "C", "H", "."}

RECURSIVE TextsOfLen(_)
TextsOfLen(n) ==
    IF n = 0 THEN {<<>>}
    ELSE {Append(t, c) : t \in TextsOfLen(n - 1), c \in DomainChars}

DomainTexts ==
    UNION {TextsOfLen(n) : n \in 0..MaxDomainLen}

\* every SMTP summary, consistent or not
SMTPRecords ==
    [HostExists : BOOLEAN, FullInbox : BOOLEAN, CatchAll : BOOLEAN,
     Deliverable : BOOLEAN, Disabled : BOOLEAN]

FunctionInit ==
    /\ v \in {[NewVerifier EXCEPT !.smtpCheckEnabled = b] : b \in BOOLEAN}
    /\ disposableSyncDomains = disposableDomains
    /\ additionalDisposableDomains = {}
    /\ adders = [a \in Callers |-> NotAdding]
    /\ fatal = FALSE
    /\ schedule = 0
    /\ refreshers = {}
    /\ created = 0
    /\ apc = "idle"
    /\ pc = "args"
    /\ world = NoWorld
    /\ ctxDone = FALSE
    /\ ret = NewResult(<<>>)
    /\ stage = "none"
    /\ g = "noGroup"
    /\ ngErr = <<>>
    /\ egErr = <<>>
    /\ egDone = FALSE
    /\ launched = 0
    /\ chk = [i \in 1..NChecks |-> "new"]
    /\ result = Pending
    /\ err = <<>>
    /\ \/ /\ email \in DomainTexts
          /\ outs = [i \in 1..NChecks |-> Pending]
       \/ /\ email = <<>>
          /\ \E s \in SMTPRecords :
                outs = [i \in 1..NChecks |->
                          IF i = 2 THEN [val |-> s, err |-> "", probes |-> <<>>]
                          ELSE Pending]

\* v.calculateReachable(smtp), as line 137 calls it
ApplyCalculateReachable ==
    /\ pc = "args"
    /\ outs[2] # Pending
    /\ ret' = [ret EXCEPT !.SMTP = outs[2].val,
                          !.Reachable = calculateReachable(v, outs[2].val)]
    /\ stage' = "calculateReachable"
    /\ pc' = "applied"
    /\ UNCHANGED <<email, world, ctxDone, g, ngErr, egErr, egDone, launched,
                   chk, outs, result, err>>
    /\ UNCHANGED verifierVars

\* TopLevelDomainExists(email), as line 105 calls it
ApplyTopLevelDomainExists ==
    /\ pc = "args"
    /\ outs[2] = Pending
    /\ ret' = [ret EXCEPT !.TLDExists = TopLevelDomainExists(email)]
    /\ stage' = "TopLevelDomainExists"
    /\ pc' = "applied"
    /\ UNCHANGED <<email, world, ctxDone, g, ngErr, egErr, egDone, launched,
                   chk, outs, result, err>>
    /\ UNCHANGED verifierVars

FunctionNext ==
    \/ ApplyCalculateReachable
    \/ ApplyTopLevelDomainExists

FunctionSpec ==
    FunctionInit /\ [][FunctionNext]_vars

(***************************************************************************)
(* Properties.                                                             *)
(***************************************************************************)
\* the syntax record of the address of the current call (lines 94-95)
CallSyntax ==
    ret.Syntax

\* the TLD check of the current call is enabled and fails
CallTLDUnknown ==
    /\ CallSyntax.Valid
    /\ ~v.TopLevelDomainDisabled
    /\ ~TopLevelDomainExists(domainToASCII(CallSyntax.Domain))

\* no closure was handed to a runner, none ran, no check returned anything
NoCheckStarted ==
    /\ launched = 0
    /\ \A i \in 1..NChecks : chk[i] = "new" /\ outs[i] = Pending

\* C3: for a syntactically invalid address Verify is done at once: it returns
\* a non-nil result that carries only the email and the invalid syntax
\* record (Reachable unknown, SMTP and Gravatar absent, every flag false) and
\* a nil error; no check is started and the TLD check is not performed.
C3_InvalidSyntaxGoesToDone ==
    (pc # "idle" /\ ~CallSyntax.Valid) =>
        /\ pc = "done"
        /\ result # Nil
        /\ result # Pending
        /\ result = [NewResult(trimLower(email)) EXCEPT !.Syntax = CallSyntax]
        /\ result.Email = trimLower(email)
        /\ result.Syntax = ParseAddress(trimLower(email))
        /\ ~result.Syntax.Valid
        /\ result.Reachable = reachableUnknown
        /\ result.SMTP = Nil
        /\ result.Gravatar = Nil
        /\ ~result.HasMxRecords
        /\ ~result.TLDExists
        /\ ~result.Disposable
        /\ ~result.Free
        /\ ~result.RoleAccount
        /\ err = <<>>
        /\ NoCheckStarted

\* "@yahoo.com" was verified with the TLD, SMTP and gravatar checks enabled
C3_Witness ==
    /\ pc = "done"
    /\ email = s_yahoo_invalid
    /\ ~v.TopLevelDomainDisabled
    /\ v.smtpCheckEnabled
    /\ v.gravatarCheckEnabled
    /\ result # Nil
    /\ err = <<>>

\* C4: Verify returns a nil result exactly when the address is syntactically
\* valid, the TLD check is enabled and the TLD of the domain does not exist;
\* then the error is the single TLD error naming the domain and no check is
\* started, also for a disposable domain. Every other outcome, failed checks
\* included, has a non-nil result.
C4_NilResultExactlyOnUnknownTLD ==
    pc = "done" =>
        LET unknown == CallTLDUnknown
        IN /\ result # Pending
           /\ CallSyntax = ParseAddress(trimLower(email))
           /\ (result = Nil) <=> unknown
           /\ unknown =>
                 /\ err = TLDError(domainToASCII(CallSyntax.Domain))
                 /\ Len(err) = 1
                 /\ NoCheckStarted

\* a registered disposable domain with an unknown TLD gave the TLD error
C4_Witness ==
    /\ pc = "done"
    /\ email = s_notld
    /\ d_override_testing \in disposableSyncDomains
    /\ result = Nil
    /\ err = TLDError(d_override_testing)

\* the domain of the current call is disposable and passes the TLD check
CallDisposable ==
    /\ CallSyntax.Valid
    /\ IsDisposable(disposableSyncDomains, CallSyntax.Domain)
    /\ ~CallTLDUnknown

\* C5: for an address at a disposable domain (built in or registered) whose
\* TLD check passes, Verify returns at once: Disposable is true, the error is
\* nil, SMTP and Gravatar are absent, HasMxRecords is false, Suggestion is
\* empty, Reachable is unknown, and no check is started, whatever is enabled.
C5_DisposableShortCircuit ==
    (pc # "idle" /\ CallDisposable) =>
        /\ pc = "done"
        /\ result # Nil
        /\ result # Pending
        /\ result.Disposable
        /\ err = <<>>
        /\ result.SMTP = Nil
        /\ result.Gravatar = Nil
        /\ ~result.HasMxRecords
        /\ result.Suggestion = <<>>
        /\ result.Reachable = reachableUnknown
        /\ NoCheckStarted

\* a registered disposable domain was verified with MX, SMTP, gravatar and
\* suggestion enabled
C5_Witness ==
    /\ pc = "done"
    /\ email = s_override
    /\ v.mxCheckEnabled
    /\ v.smtpCheckEnabled
    /\ v.gravatarCheckEnabled
    /\ v.domainSuggestEnabled
    /\ result # Nil
    /\ result.Disposable
    /\ result.TLDExists

\* C6: with SMTP checking disabled every result Verify returns has
\* Reachable = unknown and no SMTP field, whatever the address, the other
\* checks and their outcomes.
C6_SMTPDisabledUnknown ==
    (pc = "done" /\ ~v.smtpCheckEnabled /\ result # Nil) =>
        /\ result.Reachable = reachableUnknown
        /\ result.SMTP = Nil

\* the checks ran with SMTP disabled and the SMTP closure finished
C6_Witness ==
    /\ pc = "done"
    /\ stage = "checks"
    /\ ~v.smtpCheckEnabled
    /\ chk[2] = "finished"
    /\ result # Nil
    /\ result.HasMxRecords
    /\ result.Gravatar # Nil
    /\ err = <<>>

\* Verify has returned from a call that went through the checks
ChecksDone ==
    pc = "done" /\ stage = "checks"

\* the error closure i handed to its runner (empty when it returned nil)
FailureOf(i) ==
    ClosureErr(i, outs[i])

\* e is one of the errors the composite error errs is made of
Contains(errs, e) ==
    \E k \in 1..Len(errs) : errs[k] = e

\* C1: when several checks fail in one call, the error Verify returns combines
\* all of those failures, with the concurrent runner as with the sequential
\* one. (Stated for the failures of checks that were not cut short by a
\* cancellation.)
C1_AllFailuresCombined ==
    ChecksDone =>
        \A i \in 1..NChecks :
            (outs[i].err # "" /\ outs[i].err # ErrCanceled) =>
                Contains(err, FailureOf(i)[1])

\* C2: with SMTP checking enabled and a domain without mail exchangers (the
\* lookup fails with no-such-host), Verify returns HasMxRecords = false,
\* Reachable = "no" and no SMTP field, with an error naming the lookup
\* failure. (Stated for calls the caller did not cancel.)
C2_NoMailExchangerReachableNo ==
    (ChecksDone /\ v.smtpCheckEnabled /\ world.dns = NoDNS /\ ~ctxDone) =>
        /\ ~result.HasMxRecords
        /\ result.SMTP = Nil
        /\ \E k \in 1..Len(err) : err[k].cause = ErrNoSuchHost
        /\ result.Reachable = reachableNo

\* C10: with MX checking enabled CheckMX fails, returning an error and no Mx
\* record, when the resolution fails and when the domain advertises no mail
\* exchanger; it never succeeds with HasMXRecord = false: whenever it
\* succeeds HasMXRecord is true and Records is non-empty.
C10_CheckMXFailsWithoutRecords ==
    (v.mxCheckEnabled /\ outs[1] # Pending) =>
        /\ outs[1].err # "" => outs[1].val = Nil
        /\ outs[1].err = "" =>
              /\ outs[1].val # Nil
              /\ outs[1].val.HasMXRecord
              /\ Len(outs[1].val.Records) > 0
        /\ Len(world.dns.mx) = 0 => outs[1].err # ""
        /\ world.dns.err = ErrNoSuchHost => outs[1].err # ""

\* CheckMX has failed on a domain without mail exchangers, in a call nobody
\* cancelled
C10_WitnessFails ==
    /\ v.mxCheckEnabled
    /\ world.dns = NoDNS
    /\ outs[1] # Pending
    /\ outs[1].err = ErrNoSuchHost
    /\ outs[1].val = Nil
    /\ ~ctxDone
    /\ ~egDone


\* ret as the checks of the current call found it (line 113)
CallInitialRet ==
    VerifyPrologue(v, disposableSyncDomains, email).ret

\* the result fields the checks write
CheckFields ==
    {"HasMxRecords", "SMTP", "Reachable", "Gravatar", "Suggestion"}

\* what the four checks return in world w when nobody cancels their context
WorldOuts(vv, w, r0) ==
    [i \in 1..NChecks |-> CheckCall(i, vv, FALSE, w, r0)]

\* the result after the first k closures (lines 121-156) have ended in
\* program order, closure i with the outcome o[i] of its check
RECURSIVE RetAfter(_, _, _, _)
RetAfter(k, vv, r0, o) ==
    IF k = 0 THEN r0
    ELSE ClosureRet(k, vv, RetAfter(k - 1, vv, r0, o), o[k])

\* What errgroup.Group makes of the four closures when they end in the order
\* given: the results, first errors and states of the group's context after
\* the first k of them. The check of a closure that ends after the context
\* was cancelled has seen the cancellation or had returned before it; a
\* closure without a network operation runs at once.
RECURSIVE errgroupRuns(_, _, _, _, _)
errgroupRuns(k, vv, w, r0, order) ==
    IF k = 0 THEN {[ret |-> r0, err |-> <<>>, done |-> FALSE]}
    ELSE LET i == order[k]
         IN UNION { { LET out == CheckCall(i, vv, c, w, prev.ret)
                          e == ClosureErr(i, out)
                      IN [ret |-> ClosureRet(i, vv, prev.ret, out),
                          err |-> errgroupGo(prev.err, e),
                          done |-> errgroupCancel(prev.err, e, prev.done)]
                      : c \in IF IsNetworkCheck(vv, i)
                               THEN {FALSE} \cup {prev.done}
                               ELSE {prev.done} }
                    : prev \in errgroupRuns(k - 1, vv, w, r0, order) }

\* what g.Wait() and Verify return with an errgroup, over every order in
\* which the closures can end, when the caller does not cancel
errgroupOutcomes(vv, w, r0) ==
    UNION { { [ret |-> x.ret, err |-> errgroupWait(x.err)]
              : x \in errgroupRuns(NChecks, vv, w, r0, order) }
            : order \in Permutations(1..NChecks) }

\* C7: where Verify takes the sequential runner (fewer than two checks
\* enabled) it returns the result fields and the error/no-error outcome that
\* an errgroup running the same closures returns, for the same address,
\* configuration and answers of the lookups, in whatever order the errgroup's
\* goroutines end. Where Verify takes the errgroup, what it returns is one of
\* the outcomes so described.
C7_RunnersAgree ==
    (ChecksDone /\ ~ctxDone) =>
        /\ g = "noGroup" =>
              /\ enabledOptions(v) < 2
              /\ \A x \in errgroupOutcomes(v, world, CallInitialRet) :
                    /\ x.ret = result
                    /\ (x.err = <<>>) <=> (err = <<>>)
        /\ g = "errgroup" =>
              \E x \in errgroupOutcomes(v, world, CallInitialRet) :
                    x.ret = result /\ x.err = err

\* the sequential runner ran with the MX check alone enabled and the lookup
\* failed: Verify returned the error and the result an errgroup would return
C7_Witness ==
    /\ ChecksDone
    /\ ~ctxDone
    /\ g = "noGroup"
    /\ enabledOptions(v) = 1
    /\ v.mxCheckEnabled
    /\ outs[1].err = ErrNoSuchHost
    /\ err # <<>>
    /\ \E x \in errgroupOutcomes(v, world, CallInitialRet) :
          x.ret = result /\ x.err # <<>>

\* C8: with the concurrent runner the first check that fails cancels the
\* context the checks share; a sibling whose network operation is still in
\* flight then ends with the cancellation and writes nothing to the result;
\* the caller's own context is not cancelled by a failing check.
C8_FirstFailureCancelsSiblings ==
    /\ []((g = "errgroup" /\ pc = "checks"
           /\ \E i \in 1..NChecks : chk[i] = "finished" /\ outs[i].err # "")
          => egDone)
    /\ [][\A i \in 1..NChecks :
            (/\ g = "errgroup" /\ egDone
             /\ IsNetworkCheck(v, i)
             /\ chk[i] = "running"
             /\ chk'[i] # "running")
            => (chk'[i] = "returned" /\ outs'[i].err = ErrCanceled /\ ret' = ret)]_vars
    /\ [][\A i \in 1..NChecks :
            (chk[i] = "returned" /\ outs[i].err = ErrCanceled /\ chk'[i] = "finished")
            => ret' = ret]_vars
    /\ [][(~ctxDone /\ ctxDone') =>
            (chk' = chk /\ egErr' = egErr /\ egDone' = egDone)]_vars

\* a check failed on its own, and a sibling that was in flight ended with the
\* cancellation, while the caller's context is still live
C8_Witness ==
    /\ pc = "checks"
    /\ g = "errgroup"
    /\ ~ctxDone
    /\ egDone
    /\ \E i, j \in 1..NChecks :
          /\ i # j
          /\ chk[i] = "finished"
          /\ outs[i].err # "" /\ outs[i].err # ErrCanceled
          /\ chk[j] = "finished"
          /\ outs[j].err = ErrCanceled

\* C9: when the caller cancels the context while checks are running, every
\* check whose network operation is outstanding ends it with the
\* cancellation, and Verify eventually returns with every closure ended.
C9_CallerCancelEndsVerify ==
    /\ (pc = "checks" /\ ctxDone)
          ~> (pc = "done" /\ \A i \in 1..NChecks : chk[i] = "finished")
    /\ [][\A i \in 1..NChecks :
            (/\ ctxDone
             /\ IsNetworkCheck(v, i)
             /\ chk[i] = "running"
             /\ chk'[i] # "running")
            => (chk'[i] = "returned" /\ outs'[i].err = ErrCanceled)]_vars

\* Verify returned after the caller cancelled three network checks in flight
C9_Witness ==
    /\ pc = "done"
    /\ ctxDone
    /\ g = "errgroup"
    /\ \A i \in 1..3 : chk[i] = "finished" /\ outs[i].err = ErrCanceled

\* C11: with MX checking disabled CheckMX makes no lookup and returns a
\* non-nil, empty Mx record (HasMXRecord false, no records) and a nil error,
\* whatever the resolver would answer; Verify does not count this as a failed
\* check: it contributes no error and HasMxRecords stays false.
C11_DisabledMXIsNotAFailure ==
    (~v.mxCheckEnabled /\ outs[1] # Pending) =>
        /\ outs[1].err = ""
        /\ outs[1].val # Nil
        /\ outs[1].val = [HasMXRecord |-> FALSE, Records |-> <<>>]
        /\ \A d \in DNSAnswers : \A c \in BOOLEAN :
               CheckMX(v, c, [world EXCEPT !.dns = d]) = outs[1]
        /\ chk[1] = "finished"
        /\ FailureOf(1) = <<>>
        /\ ~ret.HasMxRecords
        /\ ChecksDone =>
               /\ result # Nil
               /\ ~result.HasMxRecords
               /\ \A k \in 1..Len(err) : err[k].op # FailedPrefix[1]

\* Verify returned without error from a call with MX checking disabled, for
\* a domain that advertises mail exchangers (the SMTP check used them)
C11_Witness ==
    /\ ChecksDone
    /\ ~v.mxCheckEnabled
    /\ v.smtpCheckEnabled
    /\ Len(world.dns.mx) > 0
    /\ outs[1] = [val |-> [HasMXRecord |-> FALSE, Records |-> <<>>], err |-> ""]
    /\ result.SMTP # Nil
    /\ ~result.HasMxRecords
    /\ err = <<>>

\* the SMTP check of the current call succeeded with a summary
SMTPChecked ==
    /\ outs[2] # Pending
    /\ outs[2].err = ""
    /\ outs[2].val # Nil

C15_NoHostNothingElse ==
    /\ (SMTPChecked /\ ~outs[2].val.HostExists) =>
          /\ outs[2].val = SMTPRecord(FALSE, FALSE, FALSE, FALSE, FALSE)
          /\ \A k \in 1..Len(outs[2].probes) : outs[2].probes[k] # "catchAll"
    /\ (pc # "idle" /\ ret.SMTP # Nil /\ ~ret.SMTP.HostExists) =>
          /\ ~ret.SMTP.FullInbox
          /\ ~ret.SMTP.CatchAll
          /\ ~ret.SMTP.Deliverable
          /\ ~ret.SMTP.Disabled

\* the SMTP check of a domain with mail exchangers could connect to none of
\* them, and Verify returned that summary
C15_Witness ==
    /\ pc = "done"
    /\ SMTPChecked
    /\ Len(world.dns.mx) > 0
    /\ ~outs[2].val.HostExists
    /\ outs[2].probes = <<"primary">>
    /\ result.SMTP = outs[2].val
    /\ result.Reachable = reachableNo

\* C13: the reachability classifier is a total function of (smtpEnabled,
\* summary) alone: unknown when SMTP checking is disabled; otherwise yes when
\* Deliverable; otherwise unknown when CatchAll; otherwise no. The rules apply
\* in that order, and every combination of the summary's fields gets exactly
\* one of the three verdicts.
C13_ClassifierRules ==
    (pc = "applied" /\ stage = "calculateReachable") =>
        LET s == outs[2].val
            enabled == v.smtpCheckEnabled
            verdict == ret.Reachable
        IN /\ verdict \in {reachableYes, reachableNo, reachableUnknown}
           /\ ~enabled => verdict = reachableUnknown
           /\ (enabled /\ s.Deliverable) => verdict = reachableYes
           /\ (enabled /\ ~s.Deliverable /\ s.CatchAll) =>
                  verdict = reachableUnknown
           /\ (enabled /\ ~s.Deliverable /\ ~s.CatchAll) =>
                  verdict = reachableNo
           /\ \A t \in SMTPRecords :
                  (t.Deliverable = s.Deliverable /\ t.CatchAll = s.CatchAll) =>
                      calculateReachable(v, t) = verdict

\* the classifier was applied, with SMTP checking enabled, to a summary that
\* is both deliverable and catch-all: the deliverable rule came first
C13_Witness ==
    /\ pc = "applied"
    /\ stage = "calculateReachable"
    /\ v.smtpCheckEnabled
    /\ outs[2].val.Deliverable
    /\ outs[2].val.CatchAll
    /\ ret.Reachable = reachableYes

\* d contains a dot
HasDot(d) ==
    \E i \in 1..Len(d) : d[i] = "."

\* the text after the last dot of d
AfterLastDot(d) ==
    LET k == CHOOSE i \in 1..Len(d) :
                 d[i] = "." /\ \A j \in (i + 1)..Len(d) : d[j] # "."
    IN SubSeq(d, k + 1, Len(d))

\* d with every lower-case letter replaced by its capital
ToUpper(d) ==
    [i \in 1..Len(d) |->
        IF \E k \in 1..Len(LowerLetters) : LowerLetters[k] = d[i]
        THEN UpperLetters[CHOOSE k \in 1..Len(LowerLetters) : LowerLetters[k] = d[i]]
        ELSE d[i]]

\* C18: TopLevelDomainExists(d) is true exactly when d contains a dot and the
\* text after its last dot, lower-cased, is a generic or a country-code TLD;
\* it is false for every d without a dot; the letter case of d does not
\* matter.
C18_TLDAfterLastDot ==
    (pc = "applied" /\ stage = "TopLevelDomainExists") =>
        /\ ret.TLDExists <=>
              (HasDot(email)
               /\ ToLower(AfterLastDot(email)) \in (GenericTLDs \cup CountryCodeTLDs))
        /\ ~HasDot(email) => ~ret.TLDExists
        /\ TopLevelDomainExists(ToUpper(email)) = ret.TLDExists
        /\ TopLevelDomainExists(ToLower(email)) = ret.TLDExists

\* the function was applied to "h.Ch" and found the TLD
C18_Witness ==
    /\ pc = "applied"
    /\ stage = "TopLevelDomainExists"
    /\ email = <<"h", ".", "C", "h">>
    /\ ret.TLDExists

\* C16: when a check fails, Verify returns the error together with the
\* partially populated result: a check that succeeded has its field set
\* (HasMxRecords; SMTP with Reachable; Gravatar; Suggestion), a check that
\* failed leaves its field at the initial value (HasMxRecords false, SMTP
\* absent, Reachable unknown, Gravatar absent); the other fields are as the
\* checks found them.
C16_PartialResultWithError ==
    (ChecksDone /\ \E i \in 1..NChecks : outs[i].err # "") =>
        /\ err # <<>>
        /\ result # Nil
        /\ result # Pending
        /\ outs[1].err = "" => result.HasMxRecords = outs[1].val.HasMXRecord
        /\ outs[1].err # "" => ~result.HasMxRecords
        /\ outs[2].err = "" =>
               /\ result.SMTP = outs[2].val
               /\ result.Reachable = calculateReachable(v, outs[2].val)
        /\ outs[2].err # "" =>
               /\ result.SMTP = Nil
               /\ result.Reachable = reachableUnknown
        /\ outs[3].err = "" => result.Gravatar = outs[3].val
        /\ outs[3].err # "" => result.Gravatar = Nil
        /\ outs[4].err = "" /\ result.Suggestion = outs[4].val
        /\ \A f \in (DOMAIN result) \ CheckFields : result[f] = CallInitialRet[f]

\* the gravatar request failed; Verify returned its error with the fields of
\* the MX and SMTP checks, which succeeded
C16_Witness ==
    /\ ChecksDone
    /\ outs[3].err = ErrHTTP
    /\ err = FailureOf(3)
    /\ result.Gravatar = Nil
    /\ result.HasMxRecords
    /\ result.SMTP # Nil
    /\ result.Reachable = reachableYes

\* C19: Verify returns only after each of the four launched checks has
\* finished, with the concurrent runner as with the sequential one, also when
\* one of them failed early; after Verify has returned the result, no check
\* writes to it.
C19_ReturnsAfterAllChecks ==
    /\ [](ChecksDone =>
            (launched = NChecks /\ \A i \in 1..NChecks : chk[i] = "finished"))
    /\ [][(pc = "checks" /\ pc' = "done") =>
            (/\ \A i \in 1..NChecks : chk[i] = "finished"
             /\ result' = ret)]_vars
    /\ [][(pc = "done" /\ pc' = "done") =>
            (ret' = ret /\ result' = result /\ chk' = chk)]_vars

\* the MX lookup failed first, the gravatar request still completed, and
\* Verify returned after all four closures
C19_Witness ==
    /\ ChecksDone
    /\ g = "errgroup"
    /\ egErr = FailureOf(1)
    /\ outs[1].err = ErrNoSuchHost
    /\ outs[3].err = ""
    /\ result.Gravatar # Nil
    /\ \A i \in 1..NChecks : chk[i] = "finished"

\* the fields of the result a check may write, according to C20
WrittenBy(i) ==
    CASE i = 1 -> {"HasMxRecords"}
      [] i = 2 -> {"SMTP", "Reachable"}
      [] i = 3 -> {"Gravatar"}
      [] i = 4 -> {"Suggestion"}

\* C20: the checks write pairwise disjoint fields of the shared result (MX
\* only HasMxRecords; SMTP only SMTP and Reachable; gravatar only Gravatar;
\* suggestion only Suggestion), so no two checks write the same field, and
\* when all checks succeed the result Verify returns is the same for every
\* interleaving of the checks.
C20_DisjointWrites ==
    /\ [][\A i \in 1..NChecks :
            (chk[i] # "finished" /\ chk'[i] = "finished") =>
                \A f \in DOMAIN ret : ret'[f] # ret[f] => f \in WrittenBy(i)]_vars
    /\ [][(\A i \in 1..NChecks : chk'[i] = chk[i] \/ chk'[i] # "finished") =>
            (ret' = ret \/ pc = "idle" \/ pc' = "idle")]_vars
    /\ [](\A i, j \in 1..NChecks : i # j => WrittenBy(i) \cap WrittenBy(j) = {})
    /\ []((ChecksDone /\ \A i \in 1..NChecks : outs[i].err = "") =>
            result = RetAfter(NChecks, v, CallInitialRet,
                              WorldOuts(v, world, CallInitialRet)))

\* with the concurrent runner the SMTP check has written its fields while the
\* MX lookup, launched before it, and the gravatar request are still under way
C20_Witness ==
    /\ pc = "checks"
    /\ g = "errgroup"
    /\ chk[2] = "finished"
    /\ ret.SMTP # Nil
    /\ ret.Reachable = reachableYes
    /\ chk[1] = "returned"
    /\ outs[1].err = ""
    /\ ~ret.HasMxRecords
    /\ chk[3] = "running"

\* Verify reads the store of disposable domains (line 102)
VerifyReads ==
    pc = "idle" /\ pc' # "idle"

\* the store holds some but not all of the domains of the call goroutine a is
\* making
PartiallyApplied(a) ==
    /\ adders[a].at # "idle"
    /\ \E j, k \in 1..Len(adders[a].domains) :
          /\ adders[a].domains[j] \in disposableSyncDomains
          /\ adders[a].domains[k] \notin disposableSyncDomains

\* C14: AddDisposableDomains is safe under concurrency and atomic for
\* readers: concurrent AddDisposableDomains and Verify calls never race on
\* unsynchronised state (no two goroutines are inside a write to the plain
\* map at once, the runtime never aborts), and a Verify call never reads a
\* store in which only some of the domains of one AddDisposableDomains call
\* are registered.
C14_RegistrationAtomicAndRaceFree ==
    /\ [](\A a, b \in Callers :
            a # b => ~(adders[a].at = "assigning" /\ adders[b].at = "assigning"))
    /\ [](~fatal)
    /\ [][VerifyReads => \A a \in Callers : ~PartiallyApplied(a)]_vars

C21_ReachableOnlyWithSMTP ==
    /\ []((pc = "done" /\ result # Nil) =>
            /\ result.Reachable \in {reachableYes, reachableNo} => result.SMTP # Nil
            /\ result.SMTP = Nil => result.Reachable = reachableUnknown)
    /\ [](ret.Reachable \in {reachableYes, reachableNo} => ret.SMTP # Nil)
    /\ [][(ret'.Reachable # ret.Reachable
            /\ ret'.Reachable \in {reachableYes, reachableNo}) =>
              (ret.SMTP = Nil /\ ret'.SMTP # Nil)]_vars

\* SMTP checking was enabled and the check failed: Verify returned the error
\* and a result without the SMTP field, whose Reachable is unknown
C21_Witness ==
    /\ pc = "done"
    /\ v.smtpCheckEnabled
    /\ outs[2] # Pending
    /\ outs[2].err # ""
    /\ err # <<>>
    /\ result # Nil
    /\ result.SMTP = Nil
    /\ result.Reachable = reachableUnknown

TypeOK ==
    /\ pc \in {"idle", "checks", "done"}
    /\ g \in {"noGroup", "errgroup"}
    /\ launched \in 0..NChecks
    /\ \A i \in 1..NChecks : chk[i] \in {"new", "running", "returned", "finished"}
====
